---- MODULE Spec2Model ----
(***************************************************************************)
(* A model of the catalog crawler of src/main.py: the Fetcher with its     *)
(* retries, the Extractor, the Year Processor, merge / dedup / sort, the   *)
(* Category Orchestrator with its CSV file, and the top-level driver.      *)
(*                                                                         *)
(* Strings are sequences of one-character strings, so that stripping and   *)
(* Python's lexicographic comparison are computed and not assumed.  A      *)
(* Python dict is a function whose DOMAIN is the set of keys present.      *)
(***************************************************************************)
EXTENDS Integers, Sequences, FiniteSets, TLC

\* ------------------------------------------------------------- constants

PAGE_SIZE == 50
MAX_RESULTS == 1500
START_YEAR == 1900
MAX_RETRIES == 3

\* ---------------------------------------------------------------- bounds

\* datetime.now().year, the last year of the crawl (an input of the run).
CurrentYear == 1901
\* The largest number of pages a first page may announce.
MaxPages == 3
\* The longest existing / fresh list handed to merge_data on its own.
MaxMergeLen == 2
\* The longest list handed to sort_data on its own.
MaxSortLen == 3

\* --------------------------------------------------------------- strings

\* The carriage return and the line feed.
CR == "\r"
LF == "\n"

\* Python's ord() on the characters the model uses.
Ord(c) ==
    CASE c = " " -> 32
      [] c = LF -> 10
      [] c = CR -> 13
      [] c = "," -> 44
      [] c = "1" -> 49
      [] c = "2" -> 50
      [] c = "9" -> 57
      [] c = "A" -> 65
      [] c = "B" -> 66
      [] c = "x" -> 120
      [] c = "y" -> 121

\* The characters str.strip() takes off, of those the model uses.
Whitespace == {" ", CR, LF}

RECURSIVE LStrip(_)
LStrip(s) ==
    IF s # << >> /\ Head(s) \in Whitespace THEN LStrip(Tail(s)) ELSE s

RECURSIVE RStrip(_)
RStrip(s) ==
    IF s # << >> /\ s[Len(s)] \in Whitespace
    THEN RStrip(SubSeq(s, 1, Len(s) - 1))
    ELSE s

\* str.strip()
Strip(s) == RStrip(LStrip(s))

\* Python's < on str: code point by code point, a proper prefix is smaller.
RECURSIVE StrLess(_, _)
StrLess(a, b) ==
    IF b = << >> THEN FALSE
    ELSE IF a = << >> THEN TRUE
    ELSE IF Ord(Head(a)) # Ord(Head(b)) THEN Ord(Head(a)) < Ord(Head(b))
    ELSE StrLess(Tail(a), Tail(b))

\* dict.get(k, default)
Get(d, k, default) == IF k \in DOMAIN d THEN d[k] ELSE default

EmptyDict == [k \in {} |-> 0]

\* ---------------------------------------------------- merge, dedup, sort

\* The identity key (item.get('year', ''), item.get('pID', '')).
KeyOf(item) == << Get(item, "year", << >>), Get(item, "pID", << >>) >>

\* The first loop of merge_data: the keys of the existing data.
ExistingKeys(existing_data) ==
    { KeyOf(existing_data[i]) : i \in 1..Len(existing_data) }

\* The second loop of merge_data, from the state (merged_data, existing_keys).
RECURSIVE MergeLoop(_, _, _)
MergeLoop(merged, keys, new_data) ==
    IF new_data = << >> THEN merged
    ELSE LET item == Head(new_data)
             key  == KeyOf(item)
         IN  IF key \notin keys
             THEN MergeLoop(Append(merged, item), keys \cup {key}, Tail(new_data))
             ELSE MergeLoop(merged, keys, Tail(new_data))

\* A merge that lets the fresh record replace the existing one (an upsert).
merge_data_upsert(existing_data, new_data) ==
    LET kept == SelectSeq(existing_data,
                    LAMBDA e : \A i \in 1..Len(new_data) :
                                   KeyOf(new_data[i]) # KeyOf(e))
    IN  MergeLoop(kept, ExistingKeys(kept), new_data)

\* A merge that forgets to register the keys it appends.
merge_data_noregister(existing_data, new_data) ==
    existing_data \o SelectSeq(new_data,
                        LAMBDA n : KeyOf(n) \notin ExistingKeys(existing_data))

merge_data(existing_data, new_data) ==
    MergeLoop(existing_data, ExistingKeys(existing_data), new_data)

\* A comparison of the keys that takes the year as a number.
KeyLessNumericYear(k1, k2) ==
    LET RECURSIVE NumVal(_, _)
        NumVal(s, acc) ==
            IF s = << >> THEN acc
            ELSE NumVal(Tail(s), 10 * acc + (Ord(Head(s)) - Ord("1") + 1))
    IN  \/ NumVal(k1[1], 0) < NumVal(k2[1], 0)
        \/ NumVal(k1[1], 0) = NumVal(k2[1], 0) /\ StrLess(k1[2], k2[2])

\* Python's < on the key tuples: the years as strings, then the pIDs.
KeyLess(k1, k2) ==
    \/ StrLess(k1[1], k2[1])
    \/ k1[1] = k2[1] /\ StrLess(k1[2], k2[2])

\* Python's sorted() is stable: an item goes behind every item whose key is
\* not greater than its own.
RECURSIVE InsertByKey(_, _)
InsertByKey(x, s) ==
    IF s = << >> THEN << x >>
    ELSE IF KeyLess(KeyOf(x), KeyOf(Head(s))) THEN << x >> \o s
    ELSE << Head(s) >> \o InsertByKey(x, Tail(s))

RECURSIVE SortLoop(_, _)
SortLoop(data, acc) ==
    IF data = << >> THEN acc
    ELSE SortLoop(Tail(data), InsertByKey(Head(data), acc))

sort_data(data) == SortLoop(data, << >>)

\* ------------------------------------------------------------- Extractor

\* Python's None, which is also what a JSON null parses to.
None == [None |-> TRUE]

\* What a call gives back: a value, or the exception it raised.
Return(v) == [exc |-> "none", val |-> v]
Raise(e) == [exc |-> e]

RecordFields == {"pID", "name", "score", "year", "contentStyle", "contDisplayName"}

\* The dict built from one item: pID as it is, the other five stripped, a
\* missing field the empty string.
ExtractItem(item) ==
    [f \in RecordFields |->
        IF f = "pID" THEN Get(item, f, << >>) ELSE Strip(Get(item, f, << >>))]

\* if not json_data or json_data.get("code") != 200
Rejected(json_data) ==
    \/ json_data = None
    \/ DOMAIN json_data = {}
    \/ "code" \notin DOMAIN json_data
    \/ json_data.code # 200

\* An Extractor that indexes the page by "body" in place of .get("body", {}).
extract_data_index(json_data) ==
    IF Rejected(json_data) THEN Return(<< << >>, 0 >>)
    ELSE IF "body" \notin DOMAIN json_data THEN Raise("KeyError")
    ELSE IF json_data.body = None THEN Raise("AttributeError")
    ELSE LET data_list == Get(json_data.body, "data", << >>)
         IN  Return(<< [i \in 1..Len(data_list) |-> ExtractItem(data_list[i])],
                       Get(json_data, "resultNum", 0) >>)

\* extract_data: (extracted, result_num), or the AttributeError of None.get.
extract_data(json_data) ==
    IF Rejected(json_data) THEN Return(<< << >>, 0 >>)
    ELSE LET result_num == Get(json_data, "resultNum", 0)
             body       == Get(json_data, "body", EmptyDict)
         IN  IF body = None THEN Raise("AttributeError")
             ELSE LET data_list == Get(body, "data", << >>)
                  IN  Return(<< [i \in 1..Len(data_list) |->
                                    ExtractItem(data_list[i])],
                                result_num >>)

\* ------------------------------------------------------------ CSV files

\* The fieldnames of the DictWriter: the columns of a dataset file.
Fieldnames == << "contDisplayName", "year", "pID", "name", "score", "contentStyle" >>

\* One row as DictWriter writes it: the columns in order, a missing key "".
CsvRow(rec) == [i \in 1..Len(Fieldnames) |-> Get(rec, Fieldnames[i], << >>)]

\* No file of that name in the data directory.
NoFile == [exists |-> FALSE]

\* open(filepath, 'w'): the file exists and is empty.
Truncated == [exists |-> TRUE, header |-> FALSE, rows |-> << >>]

\* A file written to its end: the header row and one row per record.
CsvFile(data) ==
    [exists |-> TRUE, header |-> TRUE,
     rows |-> [i \in 1..Len(data) |-> CsvRow(data[i])]]

\* A file that is there and cannot be read: open() is refused, or the bytes
\* are no UTF-8.
Unreadable == [exists |-> TRUE, readable |-> FALSE]

\* DictReader's restval, None, for the columns a short row does not reach: a
\* value that is no string.
Restval == << "None" >>

\* One field as csv.writer writes it: None as the empty string, a string as it
\* is.  The writer quotes a field that holds the delimiter, the quote character
\* or a character of the lineterminator "\n"; a carriage return is none of
\* them, and no field of the model holds one of them.
CsvField(v) == IF v = Restval THEN << >> ELSE v

\* One row as text: the fields with commas between them and the
\* lineterminator.
RECURSIVE CsvJoin(_)
CsvJoin(row) ==
    IF Len(row) = 1 THEN CsvField(row[1])
    ELSE CsvField(Head(row)) \o << "," >> \o CsvJoin(Tail(row))

CsvLine(row) == CsvJoin(row) \o << LF >>

\* The header row: a column name counts as one character.
HeaderRow == [i \in 1..Len(Fieldnames) |-> << Fieldnames[i] >>]

RECURSIVE CsvLines(_)
CsvLines(rows) ==
    IF rows = << >> THEN << >> ELSE CsvLine(Head(rows)) \o CsvLines(Tail(rows))

\* The characters in the file.
FileText(f) ==
    (IF f.header THEN CsvLine(HeaderRow) ELSE << >>) \o CsvLines(f.rows)

\* open(filepath, 'r') without newline='': universal newlines, "\r\n" and "\r"
\* are read as "\n".
RECURSIVE UniversalNewlines(_)
UniversalNewlines(t) ==
    IF t = << >> THEN << >>
    ELSE IF Head(t) = CR
    THEN << LF >> \o UniversalNewlines(
             IF Len(t) >= 2 /\ t[2] = LF THEN Tail(Tail(t)) ELSE Tail(t))
    ELSE << Head(t) >> \o UniversalNewlines(Tail(t))

\* csv.reader on unquoted text: a comma ends a field, a line end ends a row,
\* and a line without a character gives no row.
RECURSIVE ReadRows(_, _, _)
ReadRows(t, field, row) ==
    IF t = << >>
    THEN IF field = << >> /\ row = << >> THEN << >> ELSE << Append(row, field) >>
    ELSE IF Head(t) = ","
    THEN ReadRows(Tail(t), << >>, Append(row, field))
    ELSE IF Head(t) \in {LF, CR}
    THEN (IF field = << >> /\ row = << >> THEN << >> ELSE << Append(row, field) >>)
             \o ReadRows(Tail(t), << >>, << >>)
    ELSE ReadRows(Tail(t), Append(field, Head(t)), row)

\* csv.DictReader: the first row is the fieldnames, every other row a dict of
\* them; the columns a short row does not reach get restval.  (No row is longer
\* than the header: a line break in a row only shortens it.)
DictReader(t) ==
    LET rows == ReadRows(t, << >>, << >>)
    IN  IF rows = << >> THEN << >>
        ELSE LET names == rows[1]
             IN  [i \in 1..(Len(rows) - 1) |->
                    [k \in { names[j][1] : j \in 1..Len(names) } |->
                        LET j == CHOOSE j \in 1..Len(names) : names[j][1] = k
                        IN  IF j <= Len(rows[i + 1]) THEN rows[i + 1][j]
                            ELSE Restval]]

\* load_existing_data: [] without a file and for a file that cannot be read
\* (the exception is caught), else list(csv.DictReader(f)).
load_existing_data(f) ==
    IF ~f.exists THEN << >>
    ELSE IF "readable" \in DOMAIN f THEN << >>
    ELSE DictReader(UniversalNewlines(FileText(f)))

\* --------------------------------------------------- the simulated inputs

Y19 == << "1", "9" >>
Y2 == << "2" >>
PA == << "A" >>
PB == << "B" >>
Nx == << "x" >>
Ny == << "y" >>

\* Items as the API sends them: fields may be missing or padded.
ItemA == [pID |-> PA, name |-> << " ", "x" >>, year |-> << "1", "9", " " >>]
ItemA2 == [pID |-> PA, name |-> Ny, year |-> Y19, score |-> << "9" >>]
ItemB == [pID |-> PB, name |-> Nx, year |-> << " ", "2" >>]
ItemB2 == [pID |-> PB, name |-> Ny, year |-> Y2]

\* The item lists a page may carry: none, or a page with a key the earlier run
\* holds under another payload and a new key under two payloads.
PageData == { << >>, << ItemB, ItemA, ItemA2 >> }

\* The totals a page may announce: none, one full page, and one record more
\* than k full pages, up to MaxPages pages.
ResultNums ==
    {0, PAGE_SIZE} \cup { k * PAGE_SIZE + 1 : k \in 1..(MaxPages - 1) }

\* What a transport call that succeeds may return: a page, an answer with an
\* error code, an empty object, and a page whose body is null.
Responses ==
    { [code |-> 200, resultNum |-> n, body |-> [data |-> d]] :
          n \in ResultNums, d \in PageData }
    \cup { [code |-> 500], EmptyDict }
    \cup { [code |-> 200, resultNum |-> PAGE_SIZE + 1, body |-> None] }

\* The catalog file: the two categories of the run.
Catalog ==
    << [name |-> "movie", type |-> "1000"], [name |-> "tv", type |-> "1001"] >>

CategoryNames == { Catalog[i].name : i \in 1..Len(Catalog) }

\* What the catalog file may be: missing, not JSON, JSON that is not an object,
\* an object without the list, the list.
CatalogFiles == { "absent", "unparseable", "not_object", "no_list", "ok" }

\* What the data directory holds for a category when the run begins: nothing,
\* the dataset an earlier run crawled and wrote, or a file that cannot be read.
EarlierCrawl == << ItemB2 >>

PriorFiles ==
    { NoFile, Unreadable,
      CsvFile(sort_data(merge_data(<< >>,
          [i \in 1..Len(EarlierCrawl) |-> ExtractItem(EarlierCrawl[i])]))) }

\* ------------------------------------------------------------------ state

VARIABLES
    pc,             \* where the run is
    catalog_file,   \* catalog.json
    file,           \* the dataset file of every category
    categories,     \* main: the loaded categories, in catalog order
    cat_idx,        \* main: the category the loop is at
    existing_data,  \* process_category
    all_new_data,   \* process_category
    year,           \* process_category: the year the loop is at
    merged_data,    \* process_category
    sorted_data,    \* process_category
    year_data,      \* process_year_data
    total_pages,    \* process_year_data
    page,           \* process_year_data: the page being fetched
    retry_count,    \* fetch_data_with_retry
    json_data,      \* what fetch_data_with_retry returned
    save_status,    \* how save_to_csv ended: "none", "skipped", "ok", "ioerror"
    processed,      \* history: the categories process_category was called for
    raised_in,      \* history: the categories whose process_category raised
    prior_file,     \* history: the category's file when process_category began
    year_log,       \* history: the years the Year Processor was called for
    merge_calls,    \* history: the calls of merge_data for this category
    attempt_log,    \* history: the attempts of the current page fetch
    fetch_log,      \* history: the pages fetched for the current year
    first_json,     \* history: what the fetch of page 1 returned
    fetch_failed,   \* history: a page fetch of this year returned None
    extracted_log,  \* history: the records extracted from this year's pages
    page_results,   \* history: what each page of this year brought, in order
    fn, args, ret, fn_done,  \* a function called on its own
    args_in,        \* history: the arguments as they were handed over
    ret_again,      \* what a second call with the same lists returned
    fn_again,       \* the second call has returned
    runs,           \* the runs of process_category made for one category
    repeated        \* the last run crawled the same batch as the one before

mainVars == << catalog_file, file, categories, cat_idx, processed, raised_in >>
catVars == << existing_data, all_new_data, year, merged_data, sorted_data,
              save_status, prior_file, year_log, merge_calls >>
yearVars == << year_data, total_pages, first_json, fetch_failed, extracted_log,
               page_results >>
pageVars == << page, retry_count, json_data, attempt_log, fetch_log >>
fnVars == << fn, args, ret, fn_done, args_in, ret_again, fn_again >>
runVars == << runs, repeated >>
vars == << pc, mainVars, catVars, yearVars, pageVars, fnVars, runVars >>

\* The locals of process_category, process_year_data and the Fetcher before
\* they are first assigned.
CatIdle ==
    /\ existing_data = << >> /\ all_new_data = << >> /\ year = START_YEAR
    /\ merged_data = << >> /\ sorted_data = << >>
    /\ save_status = "none" /\ prior_file = NoFile
    /\ year_log = << >> /\ merge_calls = 0

YearIdle ==
    /\ year_data = << >> /\ total_pages = 0 /\ first_json = None
    /\ fetch_failed = FALSE /\ extracted_log = << >>
    /\ page_results = << >>

PageIdle ==
    /\ page = 1 /\ retry_count = 0 /\ json_data = None
    /\ attempt_log = << >> /\ fetch_log = << >>

\* The locals go out of scope: they are as before their first assignment.
ResetCat ==
    /\ existing_data' = << >> /\ all_new_data' = << >> /\ year' = START_YEAR
    /\ merged_data' = << >> /\ sorted_data' = << >>
    /\ save_status' = "none" /\ prior_file' = NoFile
    /\ year_log' = << >> /\ merge_calls' = 0

ResetYear ==
    /\ year_data' = << >> /\ total_pages' = 0 /\ first_json' = None
    /\ fetch_failed' = FALSE /\ extracted_log' = << >>
    /\ page_results' = << >>

ResetPage ==
    /\ page' = 1 /\ retry_count' = 0 /\ json_data' = None
    /\ attempt_log' = << >> /\ fetch_log' = << >>

FnIdle ==
    /\ fn = "none" /\ args = << >> /\ ret = << >> /\ fn_done = FALSE
    /\ args_in = << >> /\ ret_again = << >> /\ fn_again = FALSE

RunIdle == runs = 0 /\ repeated = FALSE

\* The data directory when the run begins: every category's file in the same
\* condition.
DataDirs == { [c \in CategoryNames |-> p] : p \in PriorFiles }

\* The process has just started: any catalog file, any data directory.
Init ==
    /\ pc = "main"
    /\ catalog_file \in CatalogFiles
    /\ file \in DataDirs
    /\ categories = << >> /\ cat_idx = 1
    /\ processed = << >> /\ raised_in = {}
    /\ CatIdle /\ YearIdle /\ PageIdle /\ FnIdle /\ RunIdle

\* ----------------------------------------------------------------- driver

\* load_categories: the name -> type mapping in catalog order; {} for a missing
\* or unparseable file; any other error is not caught.
load_categories(cf) ==
    CASE cf = "absent" -> Return(<< >>)
      [] cf = "unparseable" -> Return(<< >>)
      [] cf = "not_object" -> Raise("AttributeError")
      [] cf = "no_list" -> Return(<< >>)
      [] cf = "ok" -> Return([i \in 1..Len(Catalog) |->
                                [name |-> Catalog[i].name, code |-> Catalog[i].type]])

\* main up to its loop: load the categories, leave when there are none.
Main ==
    /\ pc = "main"
    /\ LET r == load_categories(catalog_file)
       IN  IF r.exc # "none" THEN pc' = "main_raised" /\ UNCHANGED categories
           ELSE IF r.val = << >> THEN pc' = "exit" /\ UNCHANGED categories
           ELSE pc' = "cat_loop" /\ categories' = r.val
    /\ UNCHANGED << catalog_file, file, cat_idx, processed, raised_in >>
    /\ UNCHANGED << catVars, yearVars, pageVars, fnVars, runVars >>

\* A main loop that gives up at the first category that raises.
AfterExceptBreak(idx, n) == n + 1

\* except Exception: ... continue: the loop goes on with the next category.
AfterExcept(idx, n) == idx + 1

\* The head of main's loop, and process_category down to its year loop.
CatLoop ==
    /\ pc = "cat_loop"
    /\ IF cat_idx > Len(categories)
       THEN /\ pc' = "exit"
            /\ UNCHANGED << processed, catVars >>
       ELSE LET f == file[categories[cat_idx].name]
            IN  /\ pc' = "year_loop"
                /\ processed' = Append(processed, cat_idx)
                /\ existing_data' = load_existing_data(f)
                /\ prior_file' = f
                /\ all_new_data' = << >>
                /\ year' = START_YEAR
                /\ UNCHANGED << merged_data, sorted_data, save_status,
                                year_log, merge_calls >>
    /\ UNCHANGED << catalog_file, file, categories, cat_idx, raised_in >>
    /\ UNCHANGED << yearVars, pageVars, fnVars, runVars >>

\* process_category returned: the locals are gone, the loop moves on.
CatDone ==
    /\ pc = "cat_done"
    /\ pc' = "cat_loop"
    /\ cat_idx' = cat_idx + 1
    /\ ResetCat /\ ResetYear /\ ResetPage
    /\ UNCHANGED << catalog_file, file, categories, processed, raised_in, fnVars, runVars >>

\* process_category raised: main's handler logs it and continues.
CatExcept ==
    /\ pc = "cat_raised"
    /\ pc' = "cat_loop"
    /\ cat_idx' = AfterExcept(cat_idx, Len(categories))
    /\ ResetCat /\ ResetYear /\ ResetPage
    /\ UNCHANGED << catalog_file, file, categories, processed, raised_in, fnVars, runVars >>

\* The process is killed (a signal, a power cut): nothing more runs, and only
\* the files stay as they are.
Crash ==
    /\ pc \notin {"main", "exit", "main_raised", "crashed", "idle"}
    /\ pc' = "crashed"
    /\ ResetYear /\ ResetPage
    /\ UNCHANGED << mainVars, catVars, fnVars, runVars >>

\* ---------------------------------------------------------------- Fetcher

\* A Fetcher that retries once too often.
CanRetryInclusive(rc) == rc <= MAX_RETRIES

\* if retry_count < MAX_RETRIES
CanRetry(rc) == rc < MAX_RETRIES

\* The call fetch_data_with_retry(p, code, year) with retry_count = 0.
StartFetch(p) ==
    /\ pc' = "fetch"
    /\ page' = p
    /\ retry_count' = 0
    /\ attempt_log' = << >>
    /\ fetch_log' = Append(fetch_log, p)
    /\ UNCHANGED json_data

\* One attempt whose requests.get or raise_for_status raises: the Fetcher calls
\* itself with retry_count + 1, or gives up and returns None.
FetchFail ==
    /\ pc = "fetch"
    /\ attempt_log' = Append(attempt_log, [retry |-> retry_count, ok |-> FALSE])
    /\ IF CanRetry(retry_count)
       THEN /\ retry_count' = retry_count + 1
            /\ pc' = "fetch"
            /\ UNCHANGED << json_data, fetch_failed, first_json >>
       ELSE /\ json_data' = None
            /\ pc' = "fetched"
            /\ fetch_failed' = TRUE
            /\ first_json' = IF page = 1 THEN None ELSE first_json
            /\ UNCHANGED retry_count
    /\ UNCHANGED << page, fetch_log, year_data, total_pages, extracted_log,
                    page_results >>
    /\ UNCHANGED << mainVars, catVars, fnVars, runVars >>

\* One attempt that succeeds: the parsed JSON is returned.
FetchOk ==
    /\ pc = "fetch"
    /\ \E r \in Responses :
          /\ json_data' = r
          /\ first_json' = IF page = 1 THEN r ELSE first_json
    /\ attempt_log' = Append(attempt_log, [retry |-> retry_count, ok |-> TRUE])
    /\ pc' = "fetched"
    /\ UNCHANGED << page, retry_count, fetch_log >>
    /\ UNCHANGED << year_data, total_pages, fetch_failed, extracted_log,
                    page_results >>
    /\ UNCHANGED << mainVars, catVars, fnVars, runVars >>

\* --------------------------------------------------------- Year Processor

\* if not json_data: None, or an empty JSON object.
Falsy(j) == j = None \/ DOMAIN j = {}

\* A page count that rounds down.
TotalPagesFloor(result_num) == result_num \div PAGE_SIZE

\* math.ceil(result_num / PAGE_SIZE)
TotalPages(result_num) == (result_num + PAGE_SIZE - 1) \div PAGE_SIZE

\* A year loop over range(start_year, end_year): the last year is left out.
InYearRangeExclusive(y, end_year) == y < end_year

\* for year in range(start_year, end_year + 1)
InYearRange(y, end_year) == y <= end_year

\* The head of process_category's year loop, and process_year_data down to
\* its fetch of page 1.
YearLoop ==
    /\ pc = "year_loop"
    /\ IF InYearRange(year, CurrentYear)
       THEN /\ year_data' = << >>
            /\ StartFetch(1)
            /\ UNCHANGED << total_pages, first_json, fetch_failed, extracted_log,
                            page_results >>
       ELSE /\ pc' = "merge"
            /\ UNCHANGED << yearVars, pageVars >>
    /\ UNCHANGED << mainVars, catVars, fnVars, runVars >>

\* for page in range(2, total_pages + 1): fetch page p, or return year_data.
PageLoop(p, pages) ==
    IF p <= pages
    THEN StartFetch(p)
    ELSE /\ pc' = "year_done"
         /\ UNCHANGED pageVars

\* What one page brought: the fetch returned None or not, and the records
\* extracted from it.
PageResult(j, extracted) == [failed |-> j = None, records |-> extracted]

\* The exception of extract_data leaves process_year_data and
\* process_category: main's handler is next.
RaiseInCategory ==
    /\ pc' = "cat_raised"
    /\ raised_in' = raised_in \cup {cat_idx}
    /\ UNCHANGED << catalog_file, file, categories, cat_idx, processed >>
    /\ UNCHANGED << year_data, total_pages, pageVars >>

\* A first page without records that does not end the year.
NoRecordsIgnored(extracted) == FALSE

\* if not extracted_first
NoRecords(extracted) == extracted = << >>

\* process_year_data after the fetch of page 1.
FirstPage ==
    /\ pc = "fetched" /\ page = 1
    /\ LET r == extract_data(json_data)
       IN  /\ extracted_log' =
                 IF r.exc = "none" THEN extracted_log \o r.val[1] ELSE extracted_log
           /\ page_results' =
                 IF r.exc = "none"
                 THEN Append(page_results, PageResult(json_data, r.val[1]))
                 ELSE page_results
           /\ IF Falsy(json_data)
              THEN /\ pc' = "year_done"
                   /\ UNCHANGED << mainVars, year_data, total_pages, pageVars >>
              ELSE IF r.exc # "none"
              THEN RaiseInCategory
              ELSE IF NoRecords(r.val[1])
              THEN /\ pc' = "year_done"
                   /\ UNCHANGED << mainVars, year_data, total_pages, pageVars >>
              ELSE /\ total_pages' = TotalPages(r.val[2])
                   /\ year_data' = year_data \o r.val[1]
                   /\ PageLoop(2, total_pages')
                   /\ UNCHANGED mainVars
    /\ UNCHANGED << first_json, fetch_failed, catVars, fnVars, runVars >>

\* A page loop that stops at the first page whose fetch returned nothing.
AfterFailedPageBreak(p, pages) == pages + 1

\* if not json_data: continue: the loop goes on with the next page.
AfterFailedPage(p, pages) == p + 1

\* The body of the page loop after the fetch of a page p >= 2, and the loop's
\* next turn.
NextPage ==
    /\ pc = "fetched" /\ page >= 2
    /\ LET r == extract_data(json_data)
       IN  /\ extracted_log' =
                 IF r.exc = "none" THEN extracted_log \o r.val[1] ELSE extracted_log
           /\ page_results' =
                 IF r.exc = "none"
                 THEN Append(page_results, PageResult(json_data, r.val[1]))
                 ELSE page_results
           /\ IF Falsy(json_data)
              THEN /\ PageLoop(AfterFailedPage(page, total_pages), total_pages)
                   /\ UNCHANGED << mainVars, year_data, total_pages >>
              ELSE IF r.exc # "none"
              THEN RaiseInCategory
              ELSE /\ year_data' = year_data \o r.val[1]
                   /\ PageLoop(page + 1, total_pages)
                   /\ UNCHANGED << mainVars, total_pages >>
    /\ UNCHANGED << first_json, fetch_failed, catVars, fnVars, runVars >>

\* process_year_data returned: all_new_data.extend(year_data), the next year.
YearDone ==
    /\ pc = "year_done"
    /\ all_new_data' = all_new_data \o year_data
    /\ year' = year + 1
    /\ pc' = "year_loop"
    /\ ResetYear /\ ResetPage
    /\ year_log' = Append(year_log, year)
    /\ UNCHANGED << existing_data, merged_data, sorted_data, save_status,
                    prior_file, merge_calls >>
    /\ UNCHANGED << mainVars, fnVars, runVars >>

\* --------------------------------------------------- Category Orchestrator

\* merged_data = merge_data(existing_data, all_new_data)
Merge ==
    /\ pc = "merge"
    /\ merged_data' = merge_data(existing_data, all_new_data)
    /\ merge_calls' = merge_calls + 1
    /\ pc' = "sort"
    /\ UNCHANGED << existing_data, all_new_data, year, sorted_data, save_status,
                    prior_file, year_log >>
    /\ UNCHANGED << mainVars, yearVars, pageVars, fnVars, runVars >>

\* sorted_data = sort_data(merged_data)
Sort ==
    /\ pc = "sort"
    /\ sorted_data' = sort_data(merged_data)
    /\ pc' = "save"
    /\ UNCHANGED << existing_data, all_new_data, year, merged_data, save_status,
                    prior_file, year_log, merge_calls >>
    /\ UNCHANGED << mainVars, yearVars, pageVars, fnVars, runVars >>

\* A call that hands the merged list, not the sorted one, to save_to_csv.
SaveArgMerged(merged, sorted) == merged

\* save_to_csv(sorted_data, filename)
SaveArg(merged, sorted) == sorted

CatName == categories[cat_idx].name

\* save_to_csv down to open(filepath, 'w'): nothing to save, or the file is
\* truncated.
SaveOpen ==
    /\ pc = "save"
    /\ IF SaveArg(merged_data, sorted_data) = << >>
       THEN /\ save_status' = "skipped"
            /\ pc' = "cat_done"
            /\ UNCHANGED file
       ELSE /\ file' = [file EXCEPT ![CatName] = Truncated]
            /\ pc' = "write_header"
            /\ UNCHANGED save_status
    /\ UNCHANGED << existing_data, all_new_data, year, merged_data, sorted_data,
                    prior_file, year_log, merge_calls >>
    /\ UNCHANGED << catalog_file, categories, cat_idx, processed, raised_in >>
    /\ UNCHANGED << yearVars, pageVars, fnVars, runVars >>

\* writer.writeheader()
SaveHeader ==
    /\ pc = "write_header"
    /\ file' = [file EXCEPT ![CatName].header = TRUE]
    /\ pc' = "write_rows"
    /\ UNCHANGED << catalog_file, categories, cat_idx, processed, raised_in >>
    /\ UNCHANGED << catVars, yearVars, pageVars, fnVars, runVars >>

\* writer.writerows(data), a row at a time, and the end of the with block.
SaveRows ==
    /\ pc = "write_rows"
    /\ LET data == SaveArg(merged_data, sorted_data)
           n    == Len(file[CatName].rows)
       IN  IF n < Len(data)
           THEN /\ file' = [file EXCEPT
                              ![CatName].rows = Append(@, CsvRow(data[n + 1]))]
                /\ UNCHANGED << pc, save_status >>
           ELSE /\ save_status' = "ok"
                /\ pc' = "cat_done"
                /\ UNCHANGED file
    /\ UNCHANGED << existing_data, all_new_data, year, merged_data, sorted_data,
                    prior_file, year_log, merge_calls >>
    /\ UNCHANGED << catalog_file, categories, cat_idx, processed, raised_in >>
    /\ UNCHANGED << yearVars, pageVars, fnVars, runVars >>

\* An IOError in makedirs, open or a write: save_to_csv logs it and returns.
SaveIOError ==
    /\ pc \in {"save", "write_header", "write_rows"}
    /\ pc = "save" => SaveArg(merged_data, sorted_data) # << >>
    /\ save_status' = "ioerror"
    /\ pc' = "cat_done"
    /\ UNCHANGED << existing_data, all_new_data, year, merged_data, sorted_data,
                    prior_file, year_log, merge_calls >>
    /\ UNCHANGED << mainVars, yearVars, pageVars, fnVars, runVars >>

\* ------------------------------------------------------------ the program

Next ==
    \/ Main \/ CatLoop \/ CatDone \/ CatExcept \/ Crash
    \/ YearLoop \/ FetchFail \/ FetchOk \/ FirstPage \/ NextPage \/ YearDone
    \/ Merge \/ Sort \/ SaveOpen \/ SaveHeader \/ SaveRows \/ SaveIOError

Spec == Init /\ [][Next]_vars

\* The first run on a machine: any catalog file, no dataset file yet.
InitLive == Init /\ \A c \in CategoryNames : file[c] = NoFile

\* The run under a scheduler that lets the process take its next step as long
\* as it has one: the interpreter does not stop between two statements, and a
\* transport call ends, with an answer or an exception (DEFAULT_TIMEOUT).
SpecLive == InitLive /\ [][Next]_vars /\ WF_vars(Next)

\* ------------------------------------------- the functions on their own

SeqsUpTo(S, n) == UNION { [1..k -> S] : k \in 0..n }

Restrict(d, S) == [k \in S |-> d[k]]

FullRec(y, p, n) ==
    [pID |-> p, name |-> n, score |-> << >>, year |-> y,
     contentStyle |-> << >>, contDisplayName |-> << >>]

\* The records merge_data and sort_data are called with: four keys, a second
\* payload under one of them, an empty pID, and a dict without a pID.
RecordPool ==
    { FullRec(y, p, Nx) : y \in {Y19, Y2}, p \in {PA, PB} }
    \cup { FullRec(Y19, PA, Ny), FullRec(Y19, << >>, Ny),
           [year |-> Y19, name |-> Nx] }

\* An item with every field, padded with blanks.
FullItem ==
    [pID |-> << "A", " " >>, name |-> << " ", "x", " " >>, score |-> << "9" >>,
     year |-> << "1", "9", " " >>, contentStyle |-> << " " >>,
     contDisplayName |-> << "y" >>]

\* The values extract_data is called with: None, and the objects with any of
\* code, resultNum and body missing, a body that is null, without data or with
\* items that miss any of their fields.
ExtractInputs ==
    {None} \cup
    { Restrict([code |-> c, resultNum |-> n, body |-> b], S) :
        c \in {200, 500},
        n \in {0, PAGE_SIZE + 1, MAX_RESULTS + 1},
        b \in {None, EmptyDict, [data |-> << ItemB, ItemA2 >>]}
              \cup { [data |-> << Restrict(FullItem, F) >>] :
                         F \in SUBSET RecordFields },
        S \in SUBSET {"code", "resultNum", "body"} }

ProgramIdle ==
    /\ pc = "idle"
    /\ catalog_file = "ok"
    /\ file = [c \in CategoryNames |-> NoFile]
    /\ categories = << >> /\ cat_idx = 1
    /\ processed = << >> /\ raised_in = {}
    /\ CatIdle /\ YearIdle /\ PageIdle

InitFn ==
    /\ ProgramIdle /\ RunIdle
    /\ ret = << >> /\ fn_done = FALSE
    /\ ret_again = << >> /\ fn_again = FALSE
    /\ \/ /\ fn = "merge"
          /\ args \in SeqsUpTo(RecordPool, MaxMergeLen)
                          \X SeqsUpTo(RecordPool, MaxMergeLen)
       \/ /\ fn = "sort"
          /\ args \in { << l >> : l \in SeqsUpTo(RecordPool, MaxSortLen) }
       \/ /\ fn = "extract"
          /\ args \in { << j >> : j \in ExtractInputs }
    /\ args_in = args

\* A merge_data without the copy: merged_data is the caller's existing list,
\* and the appends of the loop land in it.
ArgsAfterMergeInPlace(existing, fresh) ==
    << merge_data(existing, fresh), fresh >>

\* The caller's two lists after merge_data has returned.  The loops only read
\* them, and merged_data = existing_data.copy() is a list of its own, so the
\* appends of the second loop do not reach existing_data.
ArgsAfterMerge(existing, fresh) == << existing, fresh >>

ApplyMerge ==
    /\ fn = "merge" /\ ~fn_done
    /\ ret' = merge_data(args[1], args[2])
    /\ args' = ArgsAfterMerge(args[1], args[2])
    /\ fn_done' = TRUE
    /\ UNCHANGED << pc, mainVars, catVars, yearVars, pageVars, runVars >>
    /\ UNCHANGED << fn, args_in, ret_again, fn_again >>

\* merge_data is called once more with the same two list objects.
ApplyMergeAgain ==
    /\ fn = "merge" /\ fn_done /\ ~fn_again
    /\ ret_again' = merge_data(args[1], args[2])
    /\ args' = ArgsAfterMerge(args[1], args[2])
    /\ fn_again' = TRUE
    /\ UNCHANGED << pc, mainVars, catVars, yearVars, pageVars, runVars >>
    /\ UNCHANGED << fn, ret, fn_done, args_in >>

ApplySort ==
    /\ fn = "sort" /\ ~fn_done
    /\ ret' = sort_data(args[1])
    /\ fn_done' = TRUE
    /\ UNCHANGED << pc, mainVars, catVars, yearVars, pageVars, runVars >>
    /\ UNCHANGED << fn, args, args_in, ret_again, fn_again >>

ApplyExtract ==
    /\ fn = "extract" /\ ~fn_done
    /\ ret' = extract_data(args[1])
    /\ fn_done' = TRUE
    /\ UNCHANGED << pc, mainVars, catVars, yearVars, pageVars, runVars >>
    /\ UNCHANGED << fn, args, args_in, ret_again, fn_again >>

NextFn == ApplyMerge \/ ApplyMergeAgain \/ ApplySort \/ ApplyExtract

SpecFn == InitFn /\ [][NextFn]_vars

\* ------------------------------------------- one category, run after run

\* The runs of process_category made one after the other.
MaxRuns == 3
\* The longest batch a crawl brings.
MaxBatchLen == 2

\* The records a crawl may bring: one key under two payloads, and a pID that
\* ends in a carriage return (the Extractor does not strip the pID).
CrawlPool ==
    { FullRec(Y19, PA, Nx), FullRec(Y19, PA, Ny), FullRec(Y19, << "A", CR >>, Nx) }

Batches == SeqsUpTo(CrawlPool, MaxBatchLen)

\* One category of the catalog, no file yet, no run made.
InitRuns ==
    /\ pc = "runs"
    /\ catalog_file = "ok"
    /\ file = [c \in CategoryNames |-> NoFile]
    /\ categories = load_categories("ok").val /\ cat_idx = 1
    /\ processed = << >> /\ raised_in = {}
    /\ CatIdle /\ YearIdle /\ PageIdle /\ FnIdle /\ RunIdle

\* One run of process_category from its first line to its last, the year loop
\* taken by what it returns: load, crawl a batch, merge, sort, save.
RunCategory ==
    /\ pc = "runs" /\ runs < MaxRuns
    /\ \E batch \in Batches :
          LET f        == file[CatName]
              existing == load_existing_data(f)
              merged   == merge_data(existing, batch)
              sorted   == sort_data(merged)
              data     == SaveArg(merged, sorted)
          IN  /\ prior_file' = f
              /\ existing_data' = existing
              /\ all_new_data' = batch
              /\ merged_data' = merged
              /\ sorted_data' = sorted
              /\ IF data = << >>
                 THEN save_status' = "skipped" /\ UNCHANGED file
                 ELSE /\ save_status' = "ok"
                      /\ file' = [file EXCEPT ![CatName] = CsvFile(data)]
              /\ repeated' = (runs >= 1 /\ batch = all_new_data)
    /\ runs' = runs + 1
    /\ merge_calls' = 1
    /\ UNCHANGED << pc, catalog_file, categories, cat_idx, processed, raised_in >>
    /\ UNCHANGED << year, year_log, yearVars, pageVars, fnVars >>

NextRuns == RunCategory

SpecRuns == InitRuns /\ [][NextRuns]_vars

\* ----------------------------------------------------------------- claims

\* The identity key of the data model: the pair (year, pID).
Identity(r) == << Get(r, "year", << >>), Get(r, "pID", << >>) >>

Identities(l) == { Identity(l[i]) : i \in 1..Len(l) }

CountOf(l, k) == Cardinality({ i \in 1..Len(l) : Identity(l[i]) = k })

NoDuplicateKeys(l) ==
    \A i, j \in 1..Len(l) : i < j => Identity(l[i]) # Identity(l[j])

MergeReturned == fn = "merge" /\ fn_done

\* C1 as stated: whatever the two lists, the output of merge_data holds at
\* most one record for each identity key (year, pID).
C1_UniqueKeysForAllInputs == MergeReturned => NoDuplicateKeys(ret)

\* C1 as amended: merge_data adds no duplicate and removes none.  A key that
\* existing holds keeps exactly its records of existing, a key only fresh holds
\* gets exactly one record; so the output holds at most one record per key
\* whenever existing does.
C1_UniqueKeysIfExistingUnique ==
    MergeReturned =>
        /\ \A k \in Identities(args[1]) \cup Identities(args[2]) :
              CountOf(ret, k) =
                  IF k \in Identities(args[1]) THEN CountOf(args[1], k) ELSE 1
        /\ Identities(ret) = Identities(args[1]) \cup Identities(args[2])
        /\ NoDuplicateKeys(args[1]) => NoDuplicateKeys(ret)

\* C1's case: existing without duplicates, fresh with one new key twice under
\* two payloads, and one record of it in the output.
C1_Witness ==
    /\ MergeReturned
    /\ NoDuplicateKeys(args[1]) /\ Len(args[1]) = 2
    /\ Len(args[2]) = 2
    /\ Identity(args[2][1]) = Identity(args[2][2])
    /\ args[2][1] # args[2][2]
    /\ Identity(args[2][1]) \notin Identities(args[1])
    /\ Len(ret) = 3

\* The indices of fresh that the merge keeps: the key is not in existing and
\* no earlier record of fresh has it.
FirstOccurrences(existing, fresh) ==
    { i \in 1..Len(fresh) :
        /\ Identity(fresh[i]) \notin Identities(existing)
        /\ \A j \in 1..(i - 1) : Identity(fresh[j]) # Identity(fresh[i]) }

\* C2: merge_data is append-only and the first occurrence wins.  The output
\* begins with existing, record for record, and goes on with the first
\* occurrences of the keys new in fresh, in the order of fresh, and nothing else.
C2_AppendOnlyFirstWins ==
    MergeReturned =>
        LET existing == args[1]
            fresh    == args[2]
            kept     == FirstOccurrences(existing, fresh)
        IN  /\ Len(ret) = Len(existing) + Cardinality(kept)
            /\ \A i \in 1..Len(existing) : ret[i] = existing[i]
            /\ \A i \in kept :
                  ret[Len(existing) + Cardinality({ j \in kept : j <= i })] = fresh[i]

\* C2's case: fresh brings another payload under a key of existing, and a new
\* key; the existing record stays and only the new key is appended.
C2_Witness ==
    /\ MergeReturned
    /\ Len(args[1]) = 1 /\ Len(args[2]) = 2
    /\ Identity(args[2][1]) = Identity(args[1][1])
    /\ args[2][1] # args[1][1]
    /\ Identity(args[2][2]) # Identity(args[1][1])
    /\ ret = << args[1][1], args[2][2] >>

\* Lexicographic order of strings by code point, a prefix first.
LexLeq(a, b) ==
    \E k \in 0..Len(a) :
        /\ k <= Len(b)
        /\ \A i \in 1..k : a[i] = b[i]
        /\ \/ k = Len(a)
           \/ k < Len(b) /\ Ord(a[k + 1]) < Ord(b[k + 1])

\* (year, pID) of r1 is not greater than that of r2: the years as strings
\* first, the pIDs as strings next.
IdentityLeq(r1, r2) ==
    LET k1 == Identity(r1)
        k2 == Identity(r2)
    IN  IF k1[1] # k2[1] THEN LexLeq(k1[1], k2[1]) ELSE LexLeq(k1[2], k2[2])

IndexPermutations(n) ==
    { f \in [1..n -> 1..n] : \A i, j \in 1..n : i # j => f[i] # f[j] }

SortReturned == fn = "sort" /\ fn_done

\* C8: sort_data returns a permutation of its input that is non-decreasing
\* under the lexicographic order of (year, pID) as strings, and records of
\* equal (year, pID) keep their input order.
C8_SortedStablePermutation ==
    SortReturned =>
        /\ Len(ret) = Len(args[1])
        /\ \A i \in 1..(Len(ret) - 1) : IdentityLeq(ret[i], ret[i + 1])
        /\ \E f \in IndexPermutations(Len(ret)) :
              /\ \A i \in 1..Len(ret) : ret[i] = args[1][f[i]]
              /\ \A i, j \in 1..Len(ret) :
                    (i < j /\ Identity(ret[i]) = Identity(ret[j])) => f[i] < f[j]

\* C8's case: the input begins with year "2" and holds two payloads under one
\* key of year "19"; the output begins with "19" and keeps the two in order.
C8_Witness ==
    /\ SortReturned
    /\ Len(args[1]) = 3
    /\ args[1][1].year = Y2
    /\ Identity(args[1][2]) = Identity(args[1][3])
    /\ args[1][2] # args[1][3]
    /\ args[1][2].year = Y19
    /\ ret = << args[1][2], args[1][3], args[1][1] >>

ExtractReturned == fn = "extract" /\ fn_done

\* The response is absent or its code is not 200.
AbsentOrNot200(j) ==
    \/ j = None
    \/ "code" \notin DOMAIN j
    \/ j.code # 200

\* The response's body, where it has one, is an object.
BodyIsObject(j) == "body" \in DOMAIN j => j.body # None

\* C10: extract_data does not raise for an absent response, a response whose
\* code is not 200, or a response with fields missing (resultNum, body, data,
\* any field of an item); for an absent or non-200 response it returns ([], 0).
C10_ExtractNeverRaises ==
    ExtractReturned =>
        LET j == args[1]
        IN  /\ (AbsentOrNot200(j) \/ BodyIsObject(j)) => ret.exc = "none"
            /\ AbsentOrNot200(j) => ret = Return(<< << >>, 0 >>)

\* C10's case: a 200 response without resultNum whose one item has no field at
\* all: one record of empty strings and the count 0 come back.
C10_Witness ==
    /\ ExtractReturned
    /\ args[1] = [code |-> 200, body |-> [data |-> << EmptyDict >>]]
    /\ ret = Return(<< << [f \in RecordFields |-> << >>] >>, 0 >>)

\* Every attempt of the current page fetch failed.
AllAttemptsFailed == \A i \in 1..Len(attempt_log) : ~attempt_log[i].ok

\* C3: a page fetch whose transport call fails on every attempt has made
\* exactly MAX_RETRIES + 1 = 4 attempts, with retry_count 0, 1, 2, 3, when it
\* returns, and it returns None (it does not raise).
C3_AlwaysFailingFetchMakesFourAttempts ==
    (pc = "fetched" /\ AllAttemptsFailed) =>
        /\ Len(attempt_log) = MAX_RETRIES + 1
        /\ Len(attempt_log) = 4
        /\ \A i \in 1..Len(attempt_log) : attempt_log[i].retry = i - 1
        /\ json_data = None

\* C3's case: the fetch of a second page has failed four times and returned
\* None.
C3_Witness ==
    /\ pc = "fetched" /\ page = 2
    /\ AllAttemptsFailed
    /\ Len(attempt_log) = 4
    /\ json_data = None

\* C4 as stated: a fetch that returns None after transport failures has made
\* at most 3 attempts in total.
C4_AtMostThreeAttempts ==
    (pc = "fetched" /\ AllAttemptsFailed) => Len(attempt_log) <= 3

\* C4 as amended: the Fetcher makes at most MAX_RETRIES + 1 = 4 attempts in
\* total for one page, the first one and 3 retries, whatever their outcome.
C4_AtMostFourAttempts ==
    /\ Len(attempt_log) <= MAX_RETRIES + 1
    /\ Len(attempt_log) <= 4
    /\ pc = "fetch" => retry_count = Len(attempt_log)

\* C4's case: three attempts failed and the fourth one, the third retry, was
\* made and succeeded.
C4_Witness ==
    /\ pc = "fetched"
    /\ Len(attempt_log) = 4
    /\ attempt_log[4].ok
    /\ \A i \in 1..3 : ~attempt_log[i].ok
    /\ json_data # None

\* ceil(n / d) for n >= 0.
CeilDiv(n, d) == CHOOSE q \in 0..n : q * d >= n /\ (q - 1) * d < n

\* The number of items the first page carries.
FirstPageItems ==
    IF /\ "body" \in DOMAIN first_json /\ first_json.body # None
       /\ "data" \in DOMAIN first_json.body
    THEN Len(first_json.body.data)
    ELSE 0

\* process_year_data returned, the first page was answered with code 200 and
\* a resultNum, and no page fetch returned None.
YearReturnedWithoutFailure ==
    /\ pc = "year_done"
    /\ first_json # None
    /\ "code" \in DOMAIN first_json /\ first_json.code = 200
    /\ "resultNum" \in DOMAIN first_json
    /\ ~fetch_failed

PagesUpTo(n) == [i \in 1..n |-> i]

\* C5 as stated: with resultNum = N on the first page and no failed fetch,
\* process_year_data fetches exactly the pages 1..ceil(N/50), each once, and
\* returns every record extracted from them.
C5_FetchesCeilPages ==
    YearReturnedWithoutFailure =>
        /\ fetch_log = PagesUpTo(CeilDiv(first_json.resultNum, 50))
        /\ year_data = extracted_log

\* C5 as amended: page 1 is always fetched.  When it yields no record it is
\* the only fetch and the result is empty; else the pages 1..max(1, ceil(N/50))
\* are fetched, each once, and the result is every record extracted from them.
C5_FetchesCeilPagesButAtLeastOne ==
    YearReturnedWithoutFailure =>
        LET n     == CeilDiv(first_json.resultNum, 50)
            pages == IF FirstPageItems = 0 \/ n = 0 THEN 1 ELSE n
        IN  /\ fetch_log = PagesUpTo(pages)
            /\ year_data = extracted_log
            /\ FirstPageItems = 0 => year_data = << >>

\* C5's case: resultNum = 101, three pages fetched, all of them with records.
C5_Witness ==
    /\ YearReturnedWithoutFailure
    /\ first_json.resultNum = 101
    /\ fetch_log = << 1, 2, 3 >>
    /\ Len(year_data) >= 3

\* process_category is running, or has ended, for the category at cat_idx.
InCategory ==
    /\ processed # << >>
    /\ processed[Len(processed)] = cat_idx
    /\ cat_idx <= Len(categories)

\* The dataset process_category is to persist.
NewDataset == sort_data(merge_data(existing_data, all_new_data))

\* The file is there and can be read.
Readable(f) == f.exists /\ "readable" \notin DOMAIN f

\* C6: the persisted file of a category is never corrupted by a failure.  It is
\* unchanged until the merge has completed, and after a crash or an exception
\* it is its prior content or the complete new dataset, never a part of it.
C6_FileNeverPartial ==
    (InCategory /\ Readable(prior_file)) =>
        /\ pc \in {"year_loop", "fetch", "fetched", "year_done", "merge"}
              => file[CatName] = prior_file
        /\ (pc \in {"crashed", "cat_raised"} \/ save_status = "ioerror")
              => file[CatName] \in {prior_file, CsvFile(NewDataset)}

IsPrefix(a, b) == Len(a) <= Len(b) /\ \A i \in 1..Len(a) : a[i] = b[i]

\* C7 as stated: once process_category has returned normally the file holds
\* exactly sort_data(merge_data(existing, fresh)), also when that is empty.
C7_FileIsNewDataset ==
    (pc = "cat_done") => file[CatName] = CsvFile(NewDataset)

\* C7 as amended: once process_category has returned normally, the file holds
\* exactly the new dataset if that is not empty and the write met no IOError;
\* an empty dataset is not written and the file stays as it was; after an
\* IOError the file is as it was or holds the first rows of the new dataset.
C7_FileIsNewDatasetUnlessEmptyOrIOError ==
    (pc = "cat_done") =>
        LET f == file[CatName]
        IN  /\ save_status \in {"ok", "skipped", "ioerror"}
            /\ save_status = "skipped" <=> NewDataset = << >>
            /\ save_status = "ok" => f = CsvFile(NewDataset)
            /\ save_status = "skipped" => f = prior_file
            /\ save_status = "ioerror" =>
                  \/ f = prior_file
                  \/ f.exists /\ IsPrefix(f.rows, CsvFile(NewDataset).rows)

\* C7's case: a file of an earlier run, a crawl with a new record that sorts
\* before the existing one, and the file replaced by the two rows in order.
C7_Witness ==
    /\ pc = "cat_done" /\ save_status = "ok"
    /\ prior_file.exists
    /\ Len(existing_data) = 1
    /\ Len(file[CatName].rows) = 2
    /\ file[CatName].rows[2] = CsvRow(existing_data[1])
    /\ file[CatName] = CsvFile(NewDataset)

\* C9: an exception raised inside process_category does not stop the run.
\* main's handler takes it, the categories are processed once each in catalog
\* order, and when main ends every category of the catalog has been processed.
C9_ExceptionDoesNotStopRun ==
    /\ processed = PagesUpTo(Len(processed))
    /\ Len(processed) <= Len(categories)
    /\ raised_in \subseteq { processed[i] : i \in 1..Len(processed) }
    /\ pc = "main_raised" => raised_in = {}
    /\ (pc = "exit" /\ categories # << >>) => Len(processed) = Len(categories)

\* C9's case: the first category raised and the run ended with both processed.
C9_Witness ==
    /\ pc = "exit"
    /\ 1 \in raised_in
    /\ processed = << 1, 2 >>

\* The catalog file is absent or malformed: not JSON, or JSON of another shape.
CatalogUnusable == catalog_file # "ok"

\* C11: with the catalog file absent or malformed (unparseable, or parseable
\* but not of the expected shape) load_categories returns the empty mapping
\* without raising, and main ends at once: no category processed, no fetch
\* issued, no dataset file written.
C11_UnusableCatalogEndsRunQuietly ==
    (CatalogUnusable /\ pc # "main") =>
        /\ pc = "exit"
        /\ categories = << >> /\ processed = << >>
        /\ fetch_log = << >> /\ attempt_log = << >>
        /\ \A c \in CategoryNames : file[c] \in PriorFiles

FirstPageRecords == IF AbsentOrNot200(first_json) THEN 0 ELSE FirstPageItems

\* process_year_data is past its handling of the first page.
AfterFirstPage ==
    \/ pc = "year_done"
    \/ pc \in {"fetch", "fetched"} /\ page >= 2

\* C13: when the fetch of page 1 returns None or its extraction yields no
\* record, the year ends at once with an empty result, and page 1 is the only
\* page ever fetched for that year, whatever resultNum the page announced.
C13_EmptyFirstPageEndsYear ==
    (AfterFirstPage /\ FirstPageRecords = 0) =>
        /\ pc = "year_done"
        /\ year_data = << >>
        /\ fetch_log = << 1 >>

\* C13's case: the first page announces 101 results and carries no item; the
\* year has ended with nothing after the one fetch.
C13_Witness ==
    /\ pc = "year_done"
    /\ first_json # None
    /\ first_json = [code |-> 200, resultNum |-> 2 * PAGE_SIZE + 1,
                     body |-> [data |-> << >>]]
    /\ year_data = << >>
    /\ fetch_log = << 1 >>

Max(a, b) == IF a >= b THEN a ELSE b

RECURSIVE Flatten(_)
Flatten(ll) == IF ll = << >> THEN << >> ELSE Head(ll) \o Flatten(Tail(ll))

\* The records of the pages handled so far, page after page.
RecordsByPage == Flatten([i \in 1..Len(page_results) |-> page_results[i].records])

\* process_year_data is in its page loop, or has left it, after a first page
\* that brought records.
Paging == AfterFirstPage /\ FirstPageRecords > 0

\* C14: in the page loop a failed fetch (None) or an empty extraction adds
\* nothing and does not end the loop.  total_pages stays ceil(resultNum / 50) of
\* the first page, the pages are requested in ascending order, each once, up to
\* total_pages, and the year's result is the records of the extracted pages in
\* page order.
C14_PagingSkipsFailuresAndGoesOn ==
    Paging =>
        /\ total_pages = CeilDiv(Get(first_json, "resultNum", 0), PAGE_SIZE)
        /\ fetch_log = PagesUpTo(Len(fetch_log))
        /\ Len(fetch_log) <= Max(1, total_pages)
        /\ \A i \in 1..Len(page_results) :
              page_results[i].failed => page_results[i].records = << >>
        /\ year_data = RecordsByPage
        /\ pc = "year_done" =>
              /\ fetch_log = PagesUpTo(Max(1, total_pages))
              /\ Len(page_results) = Len(fetch_log)

\* C14's case: of three pages the fetch of the second returned None and the
\* third was still fetched; the result is the records of pages 1 and 3.
C14_Witness ==
    /\ pc = "year_done"
    /\ total_pages = 3
    /\ fetch_log = << 1, 2, 3 >>
    /\ page_results[2].failed
    /\ page_results[3].records # << >>
    /\ year_data = page_results[1].records \o page_results[3].records

\* The years START_YEAR..last in ascending order.
YearsUpTo(last) == [i \in 1..(last - START_YEAR + 1) |-> START_YEAR + i - 1]

\* process_category is in its year loop.
InYearLoop == pc \in {"year_loop", "fetch", "fetched", "year_done"}

\* process_category is past its year loop.
AfterYearLoop ==
    pc \in {"merge", "sort", "save", "write_header", "write_rows", "cat_done"}

\* The years processed are START_YEAR.. in order, each once; in the year loop
\* nothing is merged, sorted or written; past it every year up to the current
\* one is done and merge_data has been called once.
YearsThenOneMerge ==
    /\ InYearLoop =>
          /\ year_log = YearsUpTo(year - 1)
          /\ year <= CurrentYear + 1
          /\ merge_calls = 0
          /\ merged_data = << >> /\ sorted_data = << >>
          /\ save_status = "none"
          /\ file[CatName] = prior_file
    /\ AfterYearLoop =>
          /\ year_log = YearsUpTo(CurrentYear)
          /\ merge_calls = IF pc = "merge" THEN 0 ELSE 1

\* A step that ends a year appends what the year returned to the batch, and
\* no other step of the category changes the batch.
BatchGrowsByYears ==
    /\ (pc = "year_done" /\ pc' = "year_loop") =>
          all_new_data' = all_new_data \o year_data
    /\ (InYearLoop /\ pc # "year_done" /\ pc' # "cat_loop") =>
          all_new_data' = all_new_data
    /\ AfterYearLoop /\ pc' # "cat_loop" => all_new_data' = all_new_data

\* C15: process_category runs the Year Processor once for each year of
\* [START_YEAR, current year], in ascending order, and appends what each year
\* returned to one batch in that order.  merge_data is called once, after the
\* last year; during the year loop nothing is merged, sorted or written.
C15_OneBatchMergedOnceAfterLastYear ==
    []YearsThenOneMerge /\ [][BatchGrowsByYears]_vars

\* C15's case: every year is done, the first two in order, the batch holds
\* records, and the one merge has been made after the last year.
C15_Witness ==
    /\ pc = "sort"
    /\ Len(year_log) = CurrentYear - START_YEAR + 1
    /\ year_log[1] = START_YEAR /\ year_log[2] = START_YEAR + 1
    /\ all_new_data # << >>
    /\ merge_calls = 1

\* The list is in non-decreasing order of (year, pID).
SortedByIdentity(l) == \A i \in 1..(Len(l) - 1) : IdentityLeq(l[i], l[i + 1])

\* The category's file as a dataset: the records a reader finds in it.
PersistedDataset == load_existing_data(file[CatName])

\* C16: when the category's file is missing or cannot be read,
\* load_existing_data returns [] and the category's run goes on: the file
\* written at the end holds the fresh crawl alone, one record for each
\* (year, pID) of the batch (the first of the batch), sorted by (year, pID).
C16_NoReadableFileMeansFreshCrawlAlone ==
    (InCategory /\ ~Readable(prior_file) /\ (InYearLoop \/ AfterYearLoop)) =>
        /\ existing_data = << >>
        /\ pc = "cat_done" =>
              /\ save_status # "none"
              /\ save_status = "skipped" <=> all_new_data = << >>
              /\ save_status = "ok" =>
                    LET d == PersistedDataset
                    IN  /\ file[CatName].header
                        /\ NoDuplicateKeys(d)
                        /\ SortedByIdentity(d)
                        /\ Identities(d) = Identities(all_new_data)
                        /\ \A i \in 1..Len(d) :
                              \E j \in FirstOccurrences(<< >>, all_new_data) :
                                  d[i] = all_new_data[j]

\* C16's case: the file of the category could not be read, the crawl brought
\* two keys, one of them under two payloads, and the file now holds the two
\* records in order.
C16_Witness ==
    /\ pc = "cat_done" /\ save_status = "ok"
    /\ prior_file = Unreadable
    /\ existing_data = << >>
    /\ Len(all_new_data) >= 3
    /\ Len(PersistedDataset) = 2
    /\ PersistedDataset[1].year = Y19 /\ PersistedDataset[2].year = Y2

\* C17: from an absent file, after any sequence of runs of process_category
\* for a category, the persisted dataset is sorted by (year, pID) and holds no
\* two records with the same (year, pID).
C17_PersistedSortedAndUnique ==
    pc = "runs" =>
        /\ SortedByIdentity(PersistedDataset)
        /\ NoDuplicateKeys(PersistedDataset)

\* The record is one of the list.
Holds(l, r) == \E i \in 1..Len(l) : l[i] = r

\* The file of the category before the last run, as a dataset.
DatasetBefore == load_existing_data(prior_file)

\* C18: a record in the category's readable file before a run of
\* process_category is in the file after the run, with the same payload; the
\* dataset does not shrink, and it grows by the number of distinct keys of the
\* batch that it did not hold.
C18_DatasetOnlyGrows ==
    (pc = "runs" /\ runs >= 1 /\ Readable(prior_file)) =>
        /\ \A i \in 1..Len(DatasetBefore) :
              Holds(PersistedDataset, DatasetBefore[i])
        /\ Len(PersistedDataset) >= Len(DatasetBefore)
        /\ Len(PersistedDataset) - Len(DatasetBefore) =
              Cardinality(Identities(all_new_data) \ Identities(DatasetBefore))

\* C19: when process_category runs twice in a row and the crawl brings the
\* same batch both times, the file after the second run is the file after the
\* first: the same records in the same order.
C19_SameCrawlSameFile ==
    (pc = "runs" /\ repeated) => file[CatName] = prior_file

\* main has returned or raised, or the process was killed.
Terminated == pc \in {"exit", "main_raised", "crashed"}

\* process_year_data is at work on a year.
InYear == pc \in {"fetch", "fetched", "year_done"}

\* No more transport calls than this were made for the year so far: four for
\* each page that is done, and those of the page being fetched.
YearAttemptsAtMost ==
    (Len(fetch_log) - 1) * (MAX_RETRIES + 1) + Len(attempt_log)

\* One page takes at most MAX_RETRIES + 1 attempts, its retry counter starting
\* at 0, no page is fetched twice, and a year of total_pages pages takes at
\* most (MAX_RETRIES + 1) * max(1, total_pages) attempts.
AttemptBounds ==
    /\ Len(attempt_log) <= MAX_RETRIES + 1
    /\ pc = "fetch" => retry_count = Len(attempt_log)
    /\ InYear =>
          /\ fetch_log = PagesUpTo(Len(fetch_log))
          /\ Len(fetch_log) <= Max(1, total_pages)
          /\ YearAttemptsAtMost <= (MAX_RETRIES + 1) * Max(1, total_pages)

\* C20: with a finite catalog and a finite resultNum on every first page, a
\* run of main terminates under any pattern of fetch failures, and on the way
\* the retry counter starts at 0 for every page, a page takes at most
\* MAX_RETRIES + 1 attempts and a year at most
\* (MAX_RETRIES + 1) * max(1, total_pages).
C20_MainTerminatesWithinAttemptBounds == <>Terminated /\ []AttemptBounds

\* C20's case: every attempt of the first page of the last year of the last
\* category has failed, four in all, and main goes on to its end from there.
C20_Witness ==
    /\ pc = "fetched" /\ page = 1
    /\ cat_idx = Len(categories) /\ year = CurrentYear
    /\ AllAttemptsFailed /\ Len(attempt_log) = MAX_RETRIES + 1
    /\ YearAttemptsAtMost = MAX_RETRIES + 1

====
